---- MODULE Spec2Model ----
(***************************************************************************)
(* A model of factory_method.py: NotificationCreator (the factory), the    *)
(* four Notification products and client_code.                             *)
(*                                                                         *)
(* A Python str is a sequence of one-character strings, so that an         *)
(* f-string is a concatenation and startswith / emptiness are computed on  *)
(* the characters.  An optional value (an unbound local, "no exception")   *)
(* is the empty sequence <<>>, a present value v is <<v>>.                 *)
(***************************************************************************)
EXTENDS Integers, Sequences, FiniteSets, TLC

\* ------------------------------------------------------------- bounds
\* Longest recipient / message drawn by a caller of the sequential runs.
MaxLen == 2
\* Longest recipient / message drawn in the runs that remember an earlier call.
HistLen == 1
\* Number of callers that may be inside send_notification at the same time.
NCallers == 2

\* The characters strings are built from: the prefix character, an ordinary
\* character and a whitespace character.
Chars == {"+", "a", " "}

StringsUpTo(n) == UNION {[1..k -> Chars] : k \in 0..n}

Strings == StringsUpTo(MaxLen)

HistStrings == StringsUpTo(HistLen)

Callers == 1..NCallers

\* The caller of the single-threaded runs.
MainCaller == {1}

\* Identities of notification objects that can be alive at once.
ObjIds == 1..NCallers

\* ------------------------------------------------- the classes and texts
Kinds == {"EmailNotification", "SMSNotification", "PushNotification",
          "SocialMediaNotification"}

MSG_EMPTY_FIELDS == "El destinatario o el mensaje no pueden estar vacíos."

MSG_NO_PREFIX == "El número de teléfono debe tener el prefijo internacional."

MSG_EMPTY_MESSAGE == "El mensaje no puede estar vacío."

EMAIL_TEXT == <<"E","m","a","i","l"," ","e","n","v","i","a","d","o"," ","a"," ">>

SMS_TEXT == <<"S","M","S"," ","e","n","v","i","a","d","o"," ","a"," ">>

PUSH_TEXT == <<"N","o","t","i","f","i","c","a","c","i","ó","n"," ","P","u","s","h"," ","e","n","v","i","a","d","a"," ","a"," ">>

SOCIAL_TEXT == <<"M","e","n","s","a","j","e"," ","e","n","v","i","a","d","o"," ","p","o","r"," ","r","e","d","e","s"," ","s","o","c","i","a","l","e","s"," ","a"," ">>

COLON == <<":"," ">>

\* ------------------------------------------------------------ outcomes
\* What a call ends with: a returned value or a raised exception.
Returns(value) == [returned |-> <<value>>, raised |-> <<>>]

Raises(type, reason) ==
    [returned |-> <<>>, raised |-> <<[type |-> type, reason |-> reason]>>]

\* str.startswith(prefix)
startswith(s, prefix) ==
    /\ Len(s) >= Len(prefix)
    /\ SubSeq(s, 1, Len(prefix)) = prefix

\* f"{text}{recipient}: {message}"
fstring(text, recipient, message) == text \o recipient \o COLON \o message

\* ------------------------------------------------------- the products
\* str.strip() == "": every character is whitespace.
isblank(s) == \A i \in 1..Len(s) : s[i] = " "

\* Variant of EmailNotification.send: a blank check, "not recipient.strip()",
\* in place of the emptiness check.
EmailNotification_send_strip(recipient, message) ==
    IF isblank(recipient) \/ isblank(message)
    THEN Raises("ValueError", MSG_EMPTY_FIELDS)
    ELSE Returns(fstring(EMAIL_TEXT, recipient, message))

EmailNotification_send(recipient, message) ==
    IF recipient = <<>> \/ message = <<>>
    THEN Raises("ValueError", MSG_EMPTY_FIELDS)
    ELSE Returns(fstring(EMAIL_TEXT, recipient, message))

\* Variant of SMSNotification.send: '"+" not in recipient' in place of
\* 'not recipient.startswith("+")'.
SMSNotification_send_contains(recipient, message) ==
    IF ~(\E i \in 1..Len(recipient) : recipient[i] = "+")
    THEN Raises("ValueError", MSG_NO_PREFIX)
    ELSE IF message = <<>>
         THEN Raises("ValueError", MSG_EMPTY_MESSAGE)
         ELSE Returns(fstring(SMS_TEXT, recipient, message))

\* Variant of SMSNotification.send: the prefix must be followed by a digit.
SMSNotification_send_digits(recipient, message) ==
    IF ~(startswith(recipient, <<"+">>) /\ Len(recipient) > 1)
    THEN Raises("ValueError", MSG_NO_PREFIX)
    ELSE IF message = <<>>
         THEN Raises("ValueError", MSG_EMPTY_MESSAGE)
         ELSE Returns(fstring(SMS_TEXT, recipient, message))

\* Variant of SMSNotification.send: 'recipient[0] != "+"', an IndexError on
\* the empty recipient.
SMSNotification_send_index(recipient, message) ==
    IF recipient = <<>>
    THEN Raises("IndexError", "string index out of range")
    ELSE IF recipient[1] # "+"
         THEN Raises("ValueError", MSG_NO_PREFIX)
         ELSE IF message = <<>>
              THEN Raises("ValueError", MSG_EMPTY_MESSAGE)
              ELSE Returns(fstring(SMS_TEXT, recipient, message))

\* Variant of SMSNotification.send: the message is checked first.
SMSNotification_send_swapped(recipient, message) ==
    IF message = <<>>
    THEN Raises("ValueError", MSG_EMPTY_MESSAGE)
    ELSE IF ~startswith(recipient, <<"+">>)
         THEN Raises("ValueError", MSG_NO_PREFIX)
         ELSE Returns(fstring(SMS_TEXT, recipient, message))

SMSNotification_send(recipient, message) ==
    IF ~startswith(recipient, <<"+">>)
    THEN Raises("ValueError", MSG_NO_PREFIX)
    ELSE IF message = <<>>
         THEN Raises("ValueError", MSG_EMPTY_MESSAGE)
         ELSE Returns(fstring(SMS_TEXT, recipient, message))

\* Variant of PushNotification.send: the return statement copied from
\* EmailNotification.
PushNotification_send_copied(recipient, message) ==
    IF recipient = <<>> \/ message = <<>>
    THEN Raises("ValueError", MSG_EMPTY_FIELDS)
    ELSE Returns(fstring(EMAIL_TEXT, recipient, message))

PushNotification_send(recipient, message) ==
    IF recipient = <<>> \/ message = <<>>
    THEN Raises("ValueError", MSG_EMPTY_FIELDS)
    ELSE Returns(fstring(PUSH_TEXT, recipient, message))

SocialMediaNotification_send(recipient, message) ==
    IF recipient = <<>> \/ message = <<>>
    THEN Raises("ValueError", MSG_EMPTY_FIELDS)
    ELSE Returns(fstring(SOCIAL_TEXT, recipient, message))

\* notification.send(recipient, message): dispatch on the object's class.
send(notification, recipient, message) ==
    CASE notification.cls = "EmailNotification" ->
             EmailNotification_send(recipient, message)
      [] notification.cls = "SMSNotification" ->
             SMSNotification_send(recipient, message)
      [] notification.cls = "PushNotification" ->
             PushNotification_send(recipient, message)
      [] notification.cls = "SocialMediaNotification" ->
             SocialMediaNotification_send(recipient, message)

\* ---------------------------------------------------------------- state
VARIABLES
    creator,       \* the NotificationCreator: its _notification_class
    pc,            \* per caller: where its client_code call stands
    request,       \* per caller: the (recipient, message) given to client_code
    recipient,     \* per caller: send_notification's parameter recipient
    message,       \* per caller: send_notification's parameter message
    notification,  \* per caller: send_notification's local notification
    result,        \* per caller: send_notification's local result
    exc,           \* per caller: the exception in flight
    returned,      \* per caller: the value send_notification returned
    raised,        \* per caller: the exception send_notification raised
    remembered     \* one earlier call and what client_code saw of it

vars == <<creator, pc, request, recipient, message, notification, result,
          exc, returned, raised, remembered>>

Unset == [c \in Callers |-> <<>>]

\* NotificationCreator(notification_class): one factory, of any kind.
Init ==
    /\ creator \in [notification_class : Kinds]
    /\ pc = [c \in Callers |-> "idle"]
    /\ request = Unset
    /\ recipient = Unset
    /\ message = Unset
    /\ notification = Unset
    /\ result = Unset
    /\ exc = Unset
    /\ returned = Unset
    /\ raised = Unset
    /\ remembered = <<>>

\* The identities of the notification objects some frame still refers to.
LiveIds == {notification[c][1].id : c \in {d \in Callers : notification[d] # <<>>}}

\* A new object of class cls: an identity no live object has.
New(cls) ==
    [cls |-> cls, id |-> CHOOSE i \in ObjIds \ LiveIds :
                            \A j \in ObjIds \ LiveIds : i <= j]

\* Variant of the call: send_notification(message, recipient).
client_code_swapped(c, r, m) ==
    /\ pc[c] = "idle"
    /\ request' = [request EXCEPT ![c] = <<[recipient |-> r, message |-> m]>>]
    /\ recipient' = [recipient EXCEPT ![c] = <<m>>]
    /\ message' = [message EXCEPT ![c] = <<r>>]
    /\ pc' = [pc EXCEPT ![c] = "L30"]
    /\ UNCHANGED <<creator, notification, result, exc, returned, raised,
                   remembered>>

\* Variant of the call: send_notification keeps its arguments in fields of
\* the creator, which every caller's frame reads.
client_code_shared(c, r, m) ==
    /\ pc[c] = "idle"
    /\ request' = [request EXCEPT ![c] = <<[recipient |-> r, message |-> m]>>]
    /\ recipient' = [d \in Callers |-> <<r>>]
    /\ message' = [d \in Callers |-> <<m>>]
    /\ pc' = [pc EXCEPT ![c] = "L30"]
    /\ UNCHANGED <<creator, notification, result, exc, returned, raised,
                   remembered>>

\* client_code(creator, r, m) calls creator.send_notification(r, m).
client_code(c, r, m) ==
    /\ pc[c] = "idle"
    /\ request' = [request EXCEPT ![c] = <<[recipient |-> r, message |-> m]>>]
    /\ recipient' = [recipient EXCEPT ![c] = <<r>>]
    /\ message' = [message EXCEPT ![c] = <<m>>]
    /\ pc' = [pc EXCEPT ![c] = "L30"]
    /\ UNCHANGED <<creator, notification, result, exc, returned, raised,
                   remembered>>

\* Variant of factory_method: one cached instance serves every call.
factory_method_cached(c) ==
    /\ pc[c] = "L30"
    /\ notification' = [notification EXCEPT
                            ![c] = <<[cls |-> creator.notification_class, id |-> 1]>>]
    /\ pc' = [pc EXCEPT ![c] = "L31"]
    /\ UNCHANGED <<creator, request, recipient, message, result, exc,
                   returned, raised, remembered>>

\* Variant of factory_method: after creating the object the creator falls
\* back to EmailNotification for the calls that follow.
factory_method_fallback(c) ==
    /\ pc[c] = "L30"
    /\ notification' = [notification EXCEPT
                            ![c] = <<New(creator.notification_class)>>]
    /\ creator' = [notification_class |-> "EmailNotification"]
    /\ pc' = [pc EXCEPT ![c] = "L31"]
    /\ UNCHANGED <<request, recipient, message, result, exc,
                   returned, raised, remembered>>

\* notification = self.factory_method(), that is self._notification_class().
factory_method(c) ==
    /\ pc[c] = "L30"
    /\ notification' = [notification EXCEPT
                            ![c] = <<New(creator.notification_class)>>]
    /\ pc' = [pc EXCEPT ![c] = "L31"]
    /\ UNCHANGED <<creator, request, recipient, message, result, exc,
                   returned, raised, remembered>>

\* notification.send(recipient, message) up to its checks: a failing check
\* raises, otherwise control reaches the return statement.
send_validate(c) ==
    /\ pc[c] = "L31"
    /\ LET out == send(notification[c][1], recipient[c][1], message[c][1])
       IN  IF out.raised # <<>>
           THEN /\ exc' = [exc EXCEPT ![c] = out.raised]
                /\ pc' = [pc EXCEPT ![c] = "raising"]
           ELSE /\ exc' = exc
                /\ pc' = [pc EXCEPT ![c] = "format"]
    /\ UNCHANGED <<creator, request, recipient, message, notification,
                   result, returned, raised, remembered>>

\* send's return f"...": the value becomes send_notification's result.
send_format(c) ==
    /\ pc[c] = "format"
    /\ result' = [result EXCEPT
           ![c] = send(notification[c][1], recipient[c][1], message[c][1]).returned]
    /\ pc' = [pc EXCEPT ![c] = "L32"]
    /\ UNCHANGED <<creator, request, recipient, message, notification, exc,
                   returned, raised, remembered>>

\* return result: the frame of send_notification, its notification with it,
\* is gone.
send_notification_return(c) ==
    /\ pc[c] = "L32"
    /\ returned' = [returned EXCEPT ![c] = result[c]]
    /\ recipient' = [recipient EXCEPT ![c] = <<>>]
    /\ message' = [message EXCEPT ![c] = <<>>]
    /\ notification' = [notification EXCEPT ![c] = <<>>]
    /\ result' = [result EXCEPT ![c] = <<>>]
    /\ pc' = [pc EXCEPT ![c] = "done"]
    /\ UNCHANGED <<creator, request, exc, raised, remembered>>

\* The exception leaves send and send_notification, which has no handler;
\* client_code handles a ValueError and nothing else.
send_notification_raise(c) ==
    /\ pc[c] = "raising"
    /\ raised' = [raised EXCEPT ![c] = exc[c]]
    /\ exc' = [exc EXCEPT ![c] = <<>>]
    /\ recipient' = [recipient EXCEPT ![c] = <<>>]
    /\ message' = [message EXCEPT ![c] = <<>>]
    /\ notification' = [notification EXCEPT ![c] = <<>>]
    /\ pc' = [pc EXCEPT ![c] = IF exc[c][1].type = "ValueError"
                                THEN "done" ELSE "crashed"]
    /\ UNCHANGED <<creator, request, result, returned, remembered>>

\* client_code prints the string or "Error: ..." and returns.
client_code_print(c) ==
    /\ pc[c] = "done"
    /\ pc' = [pc EXCEPT ![c] = "idle"]
    /\ request' = [request EXCEPT ![c] = <<>>]
    /\ returned' = [returned EXCEPT ![c] = <<>>]
    /\ raised' = [raised EXCEPT ![c] = <<>>]
    /\ remembered' = IF remembered = <<>> THEN remembered
                     ELSE <<[remembered[1] EXCEPT !.later = TRUE]>>
    /\ UNCHANGED <<creator, recipient, message, notification, result, exc>>

\* As client_code_print, and what was printed for this call is kept to
\* compare later calls with; "later" tells that other calls have completed
\* since.
client_code_print_remember(c) ==
    /\ pc[c] = "done"
    /\ remembered' = <<[request |-> request[c][1],
                        returned |-> returned[c],
                        raised |-> raised[c],
                        later |-> FALSE]>>
    /\ pc' = [pc EXCEPT ![c] = "idle"]
    /\ request' = [request EXCEPT ![c] = <<>>]
    /\ returned' = [returned EXCEPT ![c] = <<>>]
    /\ raised' = [raised EXCEPT ![c] = <<>>]
    /\ UNCHANGED <<creator, recipient, message, notification, result, exc>>

\* One caller, one call after the other.
Next ==
    \E c \in MainCaller :
        \/ \E r \in Strings, m \in Strings : client_code(c, r, m)
        \/ factory_method(c)
        \/ send_validate(c)
        \/ send_format(c)
        \/ send_notification_return(c)
        \/ send_notification_raise(c)
        \/ client_code_print(c)

Spec == Init /\ [][Next]_vars

\* One caller, one call after the other, and one earlier call remembered.
NextHist ==
    \E c \in MainCaller :
        \/ \E r \in HistStrings, m \in HistStrings : client_code(c, r, m)
        \/ factory_method(c)
        \/ send_validate(c)
        \/ send_format(c)
        \/ send_notification_return(c)
        \/ send_notification_raise(c)
        \/ client_code_print(c)
        \/ client_code_print_remember(c)

SpecHist == Init /\ [][NextHist]_vars

\* The requests the concurrent callers make: a valid one, one without the
\* prefix, one without recipient and one without message.
SampleRequests ==
    { [recipient |-> <<"+", "a">>, message |-> <<"a">>],
      [recipient |-> <<"a">>,      message |-> <<" ">>],
      [recipient |-> <<>>,         message |-> <<"a">>],
      [recipient |-> <<"+">>,      message |-> <<>>] }

\* Several callers inside send_notification of the one creator, their steps
\* interleaved in any order.
NextConc ==
    \E c \in Callers :
        \/ \E q \in SampleRequests : client_code(c, q.recipient, q.message)
        \/ factory_method(c)
        \/ send_validate(c)
        \/ send_format(c)
        \/ send_notification_return(c)
        \/ send_notification_raise(c)
        \/ client_code_print(c)

SpecConc == Init /\ [][NextConc]_vars


\* ---------------------------------------------------------------- claims
\* A caller that has its outcome from send_notification in hand.
Done(c) == pc[c] = "done"

Kind == creator.notification_class

Req(c) == request[c][1]

Outcome(c) == [returned |-> returned[c], raised |-> raised[c]]

HasPlusPrefix(s) == Len(s) > 0 /\ Head(s) = "+"

BothGiven(c) == Req(c).recipient # <<>> /\ Req(c).message # <<>>

\* The text each product writes before the recipient.
TextOf(kind) ==
    CASE kind = "EmailNotification" -> EMAIL_TEXT
      [] kind = "SMSNotification" -> SMS_TEXT
      [] kind = "PushNotification" -> PUSH_TEXT
      [] kind = "SocialMediaNotification" -> SOCIAL_TEXT

\* The text the specification gives for each product.
EnglishTextOf(kind) ==
    CASE kind = "EmailNotification" ->
             <<"E","m","a","i","l"," ","s","e","n","t"," ","t","o"," ">>
      [] kind = "SMSNotification" ->
             <<"S","M","S"," ","s","e","n","t"," ","t","o"," ">>
      [] kind = "PushNotification" ->
             <<"P","u","s","h"," ","n","o","t","i","f","i","c","a","t","i","o","n"," ","s","e","n","t"," ","t","o"," ">>
      [] kind = "SocialMediaNotification" ->
             <<"S","o","c","i","a","l"," ","m","e","d","i","a"," ","m","e","s","s","a","g","e"," ","s","e","n","t"," ","t","o"," ">>

Confirmation(text, c) ==
    text \o Req(c).recipient \o <<":", " ">> \o Req(c).message

PlainKinds == {"EmailNotification", "PushNotification", "SocialMediaNotification"}

\* C1 (as stated): with recipient and message both non-empty, Email, Push and
\* SocialMedia succeed with "Email sent to {recipient}: {message}", "Push
\* notification sent to ..." and "Social media message sent to ...".
C1_EnglishTemplates ==
    \A c \in Callers :
        Done(c) /\ Kind \in PlainKinds /\ BothGiven(c)
        => /\ raised[c] = <<>>
           /\ returned[c] = <<Confirmation(EnglishTextOf(Kind), c)>>

\* C1 (amended): with recipient and message both non-empty, Email, Push and
\* SocialMedia succeed and return the channel's text followed by the recipient,
\* ": " and the message, verbatim; the texts are "Email enviado a ",
\* "Notificación Push enviada a " and "Mensaje enviado por redes sociales a ".
C1_PlainSuccess ==
    \A c \in Callers :
        Done(c) /\ Kind \in PlainKinds /\ BothGiven(c)
        => /\ raised[c] = <<>>
           /\ returned[c] = <<Confirmation(TextOf(Kind), c)>>

C1_Witness ==
    /\ Done(1)
    /\ Kind = "PushNotification"
    /\ Req(1) = [recipient |-> <<"a", " ">>, message |-> <<"+", "a">>]
    /\ returned[1] = <<PUSH_TEXT \o <<"a", " ", ":", " ", "+", "a">> >>

\* C2: SMS send fails with a validation error, and returns no confirmation,
\* for every recipient that does not start with "+" (the empty one included),
\* whatever the message.
C2_SmsNoPrefixFails ==
    \A c \in Callers :
        Done(c) /\ Kind = "SMSNotification" /\ ~HasPlusPrefix(Req(c).recipient)
        => /\ returned[c] = <<>>
           /\ raised[c] # <<>>
           /\ raised[c][1].type = "ValueError"

C2_Witness ==
    /\ Done(1)
    /\ Kind = "SMSNotification"
    /\ Req(1) = [recipient |-> <<"a", "+">>, message |-> <<"a">>]
    /\ raised[1] # <<>>

\* C3 (as stated): SMS send succeeds with "SMS sent to {recipient}: {message}"
\* for every recipient starting with "+" and every non-empty message.
C3_EnglishTemplate ==
    \A c \in Callers :
        Done(c) /\ Kind = "SMSNotification" /\ HasPlusPrefix(Req(c).recipient)
                /\ Req(c).message # <<>>
        => /\ raised[c] = <<>>
           /\ returned[c] = <<Confirmation(EnglishTextOf(Kind), c)>>

\* C3 (amended): SMS send succeeds for every recipient starting with "+"
\* ("+" alone included) and every non-empty message, and returns
\* "SMS enviado a {recipient}: {message}".
C3_SmsSuccess ==
    \A c \in Callers :
        Done(c) /\ Kind = "SMSNotification" /\ HasPlusPrefix(Req(c).recipient)
                /\ Req(c).message # <<>>
        => /\ raised[c] = <<>>
           /\ returned[c] = <<Confirmation(SMS_TEXT, c)>>

C3_Witness ==
    /\ Done(1)
    /\ Kind = "SMSNotification"
    /\ Req(1) = [recipient |-> <<"+">>, message |-> <<" ">>]
    /\ returned[1] = <<SMS_TEXT \o <<"+", ":", " ", " ">> >>

\* C4: what send_notification hands its caller is what send of the creator's
\* class gives for the caller's own arguments: a string unchanged, a
\* validation error with the same type and reason.
C4_PassThrough ==
    \A c \in Callers :
        Done(c) => Outcome(c) = send([cls |-> Kind, id |-> 1],
                                     Req(c).recipient, Req(c).message)

C4_Witness ==
    /\ Done(1)
    /\ Kind = "SMSNotification"
    /\ Req(1) = [recipient |-> <<"+", "a">>, message |-> <<>>]
    /\ raised[1] = <<[type |-> "ValueError", reason |-> MSG_EMPTY_MESSAGE]>>

\* C5: a call with the recipient and message of a remembered earlier call of
\* the same creator ends as that call did, whatever calls came in between.
C5_Deterministic ==
    \A c \in Callers :
        Done(c) /\ remembered # <<>> /\ remembered[1].request = Req(c)
        => /\ returned[c] = remembered[1].returned
           /\ raised[c] = remembered[1].raised

C5_Witness ==
    /\ Done(1)
    /\ remembered # <<>>
    /\ remembered[1].later
    /\ remembered[1].request = Req(1)
    /\ Req(1) = [recipient |-> <<"+">>, message |-> <<"a">>]
    /\ returned[1] # <<>>

\* C6: Email, Push and SocialMedia fail exactly when the recipient or the
\* message is the empty string, with the "recipient or message empty" reason;
\* a whitespace-only string is not empty.
C6_PlainFailsIffEmpty ==
    \A c \in Callers :
        Done(c) /\ Kind \in PlainKinds
        => /\ raised[c] # <<>> <=> ~BothGiven(c)
           /\ raised[c] # <<>> =>
                  raised[c] = <<[type |-> "ValueError",
                                 reason |-> MSG_EMPTY_FIELDS]>>

C6_Witness ==
    /\ Done(1)
    /\ Kind = "EmailNotification"
    /\ Req(1) = [recipient |-> <<" ">>, message |-> <<" ", " ">>]
    /\ raised[1] = <<>>
    /\ returned[1] # <<>>

\* The steps of a call that has begun.
Step(c) ==
    \/ factory_method(c)
    \/ send_validate(c)
    \/ send_format(c)
    \/ send_notification_return(c)
    \/ send_notification_raise(c)

Reasons == {MSG_EMPTY_FIELDS, MSG_NO_PREFIX, MSG_EMPTY_MESSAGE}

\* C7: a call never stops half way and never ends abnormally; when it ends
\* the caller holds either a confirmation string or a ValueError with a reason,
\* never both and never neither.
C7_TotalOneOutcome ==
    \A c \in Callers :
        /\ pc[c] # "crashed"
        /\ pc[c] \notin {"idle", "done"} => ENABLED Step(c)
        /\ Done(c) =>
             /\ (returned[c] = <<>>) # (raised[c] = <<>>)
             /\ raised[c] # <<>> => /\ raised[c][1].type = "ValueError"
                                    /\ raised[c][1].reason \in Reasons

C7_Witness ==
    /\ Done(1)
    /\ Kind = "SMSNotification"
    /\ Req(1) = [recipient |-> <<>>, message |-> <<>>]
    /\ raised[1] # <<>>
    /\ returned[1] = <<>>

\* C8: SMS reports "missing international prefix" whenever the recipient does
\* not start with "+", also with an empty message; it reports "message empty"
\* exactly when the recipient starts with "+" and the message is empty; it
\* never reports "recipient or message empty".
C8_SmsReasonOrder ==
    \A c \in Callers :
        Done(c) /\ Kind = "SMSNotification"
        => LET reason == IF raised[c] = <<>> THEN "" ELSE raised[c][1].reason
           IN  /\ ~HasPlusPrefix(Req(c).recipient) => reason = MSG_NO_PREFIX
               /\ reason = MSG_EMPTY_MESSAGE
                    <=> HasPlusPrefix(Req(c).recipient) /\ Req(c).message = <<>>
               /\ reason # MSG_EMPTY_FIELDS

C8_Witness ==
    /\ Done(1)
    /\ Kind = "SMSNotification"
    /\ Req(1) = [recipient |-> <<"a">>, message |-> <<>>]
    /\ raised[1] = <<[type |-> "ValueError", reason |-> MSG_NO_PREFIX]>>

\* No frame outside a call holds a notification or any other local, every
\* held notification is of the creator's class, and no two frames hold the
\* same object.
NothingCarried ==
    \A c \in Callers :
        /\ pc[c] \in {"idle", "L30", "done", "crashed"} => notification[c] = <<>>
        /\ pc[c] \in {"idle", "done", "crashed"}
             => /\ recipient[c] = <<>>
                /\ message[c] = <<>>
                /\ result[c] = <<>>
                /\ exc[c] = <<>>
        /\ notification[c] # <<>> =>
             /\ notification[c][1].cls = Kind
             /\ \A d \in Callers \ {c} : notification[d] # notification[c]

\* The creator keeps its class, and an object that enters a frame is one no
\* frame held before the step.
KindKeptAndFresh ==
    /\ creator' = creator
    /\ \A c \in Callers :
         notification'[c] # <<>> /\ notification'[c] # notification[c]
         => notification'[c][1].id \notin LiveIds

\* C9: the creator's class never changes, whatever calls succeed or fail;
\* each call gets a notification object no other frame holds, and no frame
\* holds one once its call has ended.
C9_KindFixedFreshNotifier == []NothingCarried /\ [][KindKeptAndFresh]_vars

C9_Witness ==
    /\ notification[1] # <<>>
    /\ notification[2] # <<>>
    /\ notification[1][1].id # notification[2][1].id

\* C10: with the callers' steps interleaved in any order, each frame holds its
\* own caller's arguments and each caller ends with the outcome its own
\* recipient and message give when the call runs alone.
C10_Reentrant ==
    \A c \in Callers :
        /\ pc[c] \in {"L30", "L31", "format", "L32", "raising"}
           => /\ recipient[c] = <<Req(c).recipient>>
              /\ message[c] = <<Req(c).message>>
        /\ Done(c) => Outcome(c) = send([cls |-> Kind, id |-> c],
                                        Req(c).recipient, Req(c).message)

C10_Witness ==
    /\ Done(1)
    /\ Done(2)
    /\ Req(1) # Req(2)
    /\ returned[1] # <<>>
    /\ raised[2] # <<>>

====
